---- MODULE Spec2Model ----
(***************************************************************************)
(* A model of iq.js: the rule factory (lazy generator stages), the Query   *)
(* builder (an ordered, mutable list of rules that compile() folds into    *)
(* one rule) and the QueryExecutor (a compiled rule bound to an iterable,  *)
(* driven by foreach / iforeach / collect / acollect).                     *)
(*                                                                         *)
(* A generator object is a frame (its suspension state and its locals); a  *)
(* chain of frames over a source iterator is a machine.  next() and        *)
(* return() on a generator are the recursive operators Pull and Return,    *)
(* written after the ECMAScript for-of / yield / yield* protocol.          *)
(***************************************************************************)
EXTENDS Integers, Sequences, FiniteSets, TLC

\* ------------------------------------------------------------------ bounds
MaxLen == 3        \* longest source sequence
MaxN == 2          \* largest count given to take / skip / flat
MaxStages == 2     \* most stages in a pipeline of Spec
MaxPushed == 2     \* most stages appended in a scenario of SpecBuilder

\* ------------------------------------------------------------------ values
\* JavaScript values that flow through a pipeline: undefined, numbers, arrays
\* (the iterable groups of flat) and objects with the fields "a" and "b".
Undef == [t |-> "undef"]
Num(k) == [t |-> "num", n |-> k]
Arr(s) == [t |-> "arr", items |-> s]
Obj(va, vb) == [t |-> "obj", a |-> va, b |-> vb]
Str(s) == [t |-> "str", s |-> s]

\* val[field]: a missing field reads as undefined; reading a field of
\* undefined raises a TypeError (Failed).
Failed == [t |-> "failed"]
GetField(val, field) ==
    IF val.t = "undef" THEN Failed
    ELSE IF val.t = "obj" /\ field \in DOMAIN val THEN val[field]
    ELSE Undef

\* Whether `yield* val` / `for (... of val)` can obtain an iterator.
IsIterable(val) == val.t = "arr"

\* --------------------------------------------------- caller-supplied functions
\* The predicates and mappers are the caller's; these are the ones the
\* scenarios pass.  Each is total: it returns a value or raises (Failed).
\*   gt1      (v, i) => v > 1
\*   evenIdx  (v, i) => i % 2 === 0
\*   boomAt1  (v, i) => { if (i === 1) throw ...; return true; }
PredNames == {"gt1", "evenIdx", "boomAt1"}
CallPred(fn, val, i) ==
    CASE fn = "gt1" -> IF val.t = "num" /\ val.n > 1 THEN "true" ELSE "false"
      [] fn = "evenIdx" -> IF i % 2 = 0 THEN "true" ELSE "false"
      [] OTHER -> IF i = 1 THEN "raise" ELSE "true"

\*   addIdx   (v, i) => typeof v === "number" ? v + i : v
\*   wrap     (v, i) => [v]
\*   boomAt1  (v, i) => { if (i === 1) throw ...; return v; }
MapNames == {"addIdx", "wrap", "boomAt1"}
CallMap(fn, val, i) ==
    CASE fn = "addIdx" -> IF val.t = "num" THEN Num(val.n + i) ELSE val
      [] fn = "wrap" -> Arr(<<val>>)
      [] OTHER -> IF i = 1 THEN Failed ELSE val

\* ------------------------------------------------------------------- rules
\* A QueryRule is a generator function closed over its parameters; the model
\* keeps the parameters and a tag naming the generator body.
\* `fields` is a string, Str("a"), or an array of strings, Arr(<<"a", "b">>).
BuildSelectRule(fields) ==
    LET fieldsIsArray == fields.t = "arr" IN
    IF fieldsIsArray
    THEN [kind |-> "selectAll", fields |-> fields.items]
    ELSE [kind |-> "select", field |-> fields.s]
BuildWhereRule(fn) == [kind |-> "where", fn |-> fn]
BuildFlatRule(n) == [kind |-> "flat", n |-> n]
BuildTakeRule(n) == [kind |-> "take", n |-> n]
BuildSkipRule(n) == [kind |-> "skip", n |-> n]
BuildMapRule(fn) == [kind |-> "map", fn |-> fn]

\* function*(it) { yield* it; }  -- compile() of an empty list.
IdentityRule == [kind |-> "delegate"]
\* Mutant of Compose: it => prevCompiled(rule(it)), the new rule innermost.
ComposeInside(prevCompiled, rule) == [kind |-> "comp", prev |-> rule, rule |-> prevCompiled]

\* it => rule(prevCompiled(it))  -- one step of compile()'s fold.
Compose(prevCompiled, rule) == [kind |-> "comp", prev |-> prevCompiled, rule |-> rule]

\* compiled(it): applying a compiled rule to an iterable calls the innermost
\* rule first and hands each generator object to the next rule; the result is
\* a chain of generator objects, chain[1] next to the source.
RECURSIVE Chain(_)
Chain(rule) ==
    IF rule.kind = "comp" THEN Chain(rule.prev) \o Chain(rule.rule) ELSE <<rule>>

\* ----------------------------------------------------------------- sources
\* An iterable handed to on():
\*   array   restartable: every for-of makes a new array iterator; an array
\*           iterator has no return() method
\*   gen     a generator object: one-shot, its own iterator, return() closes it
\*   iter    a one-shot iterator object (such as arr.values()): its own
\*           iterator, no return() method
\*   unset   null / undefined: not iterable
SourceKinds == {"array", "gen", "iter"}
Source(kind, items) == [kind |-> kind, items |-> items, pos |-> 0, closed |-> FALSE]
Unset == Source("unset", <<>>)

\* it[Symbol.iterator](): a new iterator for an array, the object itself for
\* a generator or an iterator object.
GetIterator(src) == IF src.kind = "array" THEN Source("array", src.items) ELSE src

\* ------------------------------------------------------------------ frames
\* A generator object: st is "start" (created, body not entered), "susp"
\* (suspended at its yield) or "done" (completed); c is the body's counter
\* (i, flattened, taken, skipped); grp holds the members of the group that
\* flat's yield* is still delegating to.
NewFrame == [st |-> "start", c |-> 0, grp |-> <<>>]

\* What a next() call returns: a value, done, or a raised failure.
Yield(v) == [t |-> "value", v |-> v]
Done == [t |-> "done"]
Raise == [t |-> "raise"]

Suspend(m, i) == [m EXCEPT !.fr[i].st = "susp"]
Complete(m, i) == [m EXCEPT !.fr[i].st = "done"]
Count(m, i) == [m EXCEPT !.fr[i].c = @ + 1]

\* next() on the source iterator.
SourceNext(m) ==
    LET si == m.si IN
    IF si.kind \notin SourceKinds THEN [m |-> m, r |-> Raise]
    ELSE IF si.closed \/ si.pos >= Len(si.items)
    THEN [m |-> [m EXCEPT !.si.closed = (si.kind = "gen") \/ @], r |-> Done]
    ELSE [m |-> [m EXCEPT !.si.pos = @ + 1], r |-> Yield(si.items[si.pos + 1])]

\* IteratorClose on the source iterator: return() is called if the iterator
\* has one; a generator's return() completes it.
SourceReturn(m) ==
    IF m.si.kind = "gen" THEN [m EXCEPT !.si.closed = TRUE] ELSE m

RECURSIVE Pull(_, _, _), Return(_, _, _), WhereLoop(_, _, _), FlatLoop(_, _, _),
          SkipLoop(_, _, _)

\* Mutant of Return: return() completes the generator it is called on and
\* does not close that generator's input.
ReturnUnpropagated(chain, i, m) ==
    IF i = 0 THEN SourceReturn(m)
    ELSE IF m.fr[i].st = "done" THEN m ELSE Complete(m, i)

\* Mutant of ExitLoop: the loop is left without closing the input iterator
\* (an iteration by hand that never calls return()).
ExitLoopUnclosed(chain, i, m, r) == [m |-> Complete(m, i), r |-> r]

\* One step of `for (const val of it)` in generator i: next() on its input,
\* counting the elements it obtains.
ForOfNext(chain, i, m) ==
    LET p == Pull(chain, i - 1, m) IN
    IF p.r.t = "value"
    THEN [m |-> [p.m EXCEPT !.pulled[i] = @ + 1], r |-> p.r]
    ELSE p

\* Leaving the for-of loop early (break, or a throw in the loop body) closes
\* the input iterator, then the generator completes.
ExitLoop(chain, i, m, r) == [m |-> Complete(Return(chain, i - 1, m), i), r |-> r]

\* The loop ends because the input is done or its next() raised: the
\* generator completes with the same outcome.
EndLoop(p, i) == [m |-> Complete(p.m, i), r |-> p.r]

\* BuildSelectRule, string form:  for (const val of it) yield val[fields];
SelectBody(chain, i, m) ==
    LET p == ForOfNext(chain, i, m) IN
    IF p.r.t # "value" THEN EndLoop(p, i)
    ELSE LET out == GetField(p.r.v, chain[i].field) IN
         IF out = Failed THEN ExitLoop(chain, i, p.m, Raise)
         ELSE [m |-> Suspend(p.m, i), r |-> Yield(out)]

\* BuildSelectRule, array form: a new object holding the named fields.
SelectAllBody(chain, i, m) ==
    LET p == ForOfNext(chain, i, m)
        fields == chain[i].fields
        names == {fields[k] : k \in DOMAIN fields}
    IN  IF p.r.t # "value" THEN EndLoop(p, i)
        ELSE IF names # {} /\ p.r.v.t = "undef" THEN ExitLoop(chain, i, p.m, Raise)
        ELSE [m |-> Suspend(p.m, i),
              r |-> Yield([f \in names \cup {"t"} |->
                              IF f = "t" THEN "obj" ELSE GetField(p.r.v, f)])]

\* Mutant of WhereLoop: the index counts the elements that passed.
WhereLoopCountsKept(chain, i, m) ==
    LET p == ForOfNext(chain, i, m) IN
    IF p.r.t # "value" THEN EndLoop(p, i)
    ELSE LET keep == CallPred(chain[i].fn, p.r.v, p.m.fr[i].c) IN
         CASE keep = "raise" -> ExitLoop(chain, i, p.m, Raise)
           [] keep = "true" -> [m |-> Suspend(Count(p.m, i), i), r |-> p.r]
           [] OTHER -> WhereLoop(chain, i, p.m)

\* Mutant of FlatLoop: once n groups are flattened the others are passed on
\* as they are.
FlatLoopPassesRest(chain, i, m) ==
    LET p == ForOfNext(chain, i, m)
        n == chain[i].n
    IN  IF p.r.t # "value" THEN EndLoop(p, i)
        ELSE IF n >= 0 /\ p.m.fr[i].c >= n THEN [m |-> Suspend(p.m, i), r |-> p.r]
        ELSE IF ~IsIterable(p.r.v) THEN ExitLoop(chain, i, p.m, Raise)
        ELSE IF p.r.v.items = <<>> THEN FlatLoop(chain, i, Count(p.m, i))
        ELSE [m |-> Suspend([p.m EXCEPT !.fr[i].grp = Tail(p.r.v.items)], i),
              r |-> Yield(Head(p.r.v.items))]

\* BuildWhereRule:  let i = 0; for (const val of it) if (fn(val, i++)) yield val;
WhereLoop(chain, i, m) ==
    LET p == ForOfNext(chain, i, m) IN
    IF p.r.t # "value" THEN EndLoop(p, i)
    ELSE LET keep == CallPred(chain[i].fn, p.r.v, p.m.fr[i].c)
             m1 == Count(p.m, i)
         IN  CASE keep = "raise" -> ExitLoop(chain, i, m1, Raise)
               [] keep = "true" -> [m |-> Suspend(m1, i), r |-> p.r]
               [] OTHER -> WhereLoop(chain, i, m1)

\* BuildFlatRule: the for-of loop from its top.
FlatLoop(chain, i, m) ==
    LET p == ForOfNext(chain, i, m)
        n == chain[i].n
    IN  IF p.r.t # "value" THEN EndLoop(p, i)
        ELSE IF n >= 0 /\ p.m.fr[i].c >= n THEN ExitLoop(chain, i, p.m, Done)
        ELSE IF ~IsIterable(p.r.v) THEN ExitLoop(chain, i, p.m, Raise)
        ELSE IF p.r.v.items = <<>> THEN FlatLoop(chain, i, Count(p.m, i))
        ELSE [m |-> Suspend([p.m EXCEPT !.fr[i].grp = Tail(p.r.v.items)], i),
              r |-> Yield(Head(p.r.v.items))]

\* BuildFlatRule resumed: inside `yield* val` while the group has members,
\* then flattened++ and the next turn of the loop.
FlatBody(chain, i, m) ==
    IF m.fr[i].st = "susp"
    THEN IF m.fr[i].grp # <<>>
         THEN [m |-> [m EXCEPT !.fr[i].grp = Tail(@)], r |-> Yield(Head(m.fr[i].grp))]
         ELSE FlatLoop(chain, i, Count(m, i))
    ELSE FlatLoop(chain, i, m)

\* BuildTakeRule:
\*   let taken = 0;
\*   for (const val of it) { if (taken >= n) break; yield val; taken++; }
TakeBody(chain, i, m) ==
    LET m0 == IF m.fr[i].st = "susp" THEN Count(m, i) ELSE m
        p == ForOfNext(chain, i, m0)
    IN  IF p.r.t # "value" THEN EndLoop(p, i)
        ELSE IF p.m.fr[i].c >= chain[i].n THEN ExitLoop(chain, i, p.m, Done)
        ELSE [m |-> Suspend(p.m, i), r |-> p.r]

\* BuildSkipRule:
\*   let skipped = 0;
\*   for (const val of it) { if (skipped >= n) yield val; skipped++; }
SkipLoop(chain, i, m) ==
    LET p == ForOfNext(chain, i, m) IN
    IF p.r.t # "value" THEN EndLoop(p, i)
    ELSE IF p.m.fr[i].c >= chain[i].n THEN [m |-> Suspend(p.m, i), r |-> p.r]
    ELSE SkipLoop(chain, i, Count(p.m, i))

SkipBody(chain, i, m) ==
    SkipLoop(chain, i, IF m.fr[i].st = "susp" THEN Count(m, i) ELSE m)

\* BuildMapRule:  let i = 0; for (const val of it) yield fn(val, i++);
MapBody(chain, i, m) ==
    LET p == ForOfNext(chain, i, m) IN
    IF p.r.t # "value" THEN EndLoop(p, i)
    ELSE LET out == CallMap(chain[i].fn, p.r.v, p.m.fr[i].c)
             m1 == Count(p.m, i)
         IN  IF out = Failed THEN ExitLoop(chain, i, m1, Raise)
             ELSE [m |-> Suspend(m1, i), r |-> Yield(out)]

\* The values a generator gets by draining its input into its own buffer.
RECURSIVE DrainInto(_, _, _)
DrainInto(chain, i, m) ==
    LET p == ForOfNext(chain, i, m) IN
    IF p.r.t = "value"
    THEN DrainInto(chain, i, [p.m EXCEPT !.fr[i].grp = Append(@, p.r.v)])
    ELSE p

\* Mutant of DelegateBody:  yield* Array.from(it);  the input is drained at
\* the first request, and the values are handed out from the buffer.
DelegateBodyBuffered(chain, i, m) ==
    LET d == IF m.fr[i].st = "start" THEN DrainInto(chain, i, m) ELSE [m |-> m, r |-> Done] IN
    IF d.r.t = "raise" THEN EndLoop(d, i)
    ELSE IF d.m.fr[i].grp = <<>> THEN [m |-> Complete(d.m, i), r |-> Done]
    ELSE [m |-> Suspend([d.m EXCEPT !.fr[i].grp = Tail(@)], i),
          r |-> Yield(Head(d.m.fr[i].grp))]

\* function*(it) { yield* it; }  and  *[Symbol.iterator]() { yield* ... }
DelegateBody(chain, i, m) ==
    LET p == ForOfNext(chain, i, m) IN
    IF p.r.t # "value" THEN EndLoop(p, i)
    ELSE [m |-> Suspend(p.m, i), r |-> p.r]

\* next() on generator i of the chain (0 is the source iterator): a completed
\* generator answers done; otherwise its body runs to the next yield.
Pull(chain, i, m) ==
    IF i = 0 THEN SourceNext(m)
    ELSE IF m.fr[i].st = "done" THEN [m |-> m, r |-> Done]
    ELSE CASE chain[i].kind = "select" -> SelectBody(chain, i, m)
           [] chain[i].kind = "selectAll" -> SelectAllBody(chain, i, m)
           [] chain[i].kind = "where" -> WhereLoop(chain, i, m)
           [] chain[i].kind = "flat" -> FlatBody(chain, i, m)
           [] chain[i].kind = "take" -> TakeBody(chain, i, m)
           [] chain[i].kind = "skip" -> SkipBody(chain, i, m)
           [] chain[i].kind = "map" -> MapBody(chain, i, m)
           [] OTHER -> DelegateBody(chain, i, m)

\* return() on generator i: a generator suspended at a yield inside its
\* for-of (or yield*) closes its input and completes; one whose body was
\* never entered completes without touching its input; a completed one
\* does nothing.
Return(chain, i, m) ==
    IF i = 0 THEN SourceReturn(m)
    ELSE CASE m.fr[i].st = "susp" -> Complete(Return(chain, i - 1, m), i)
           [] m.fr[i].st = "start" -> Complete(m, i)
           [] OTHER -> m

\* ------------------------------------------------------------------- Query
\* Query.compile(): the left fold of this.rules into one rule; the identity
\* generator for an empty list.  k runs over the loop's i + 1.
RECURSIVE CompileFrom(_, _, _)
CompileFrom(rules, k, compiled) ==
    IF k > Len(rules) THEN compiled
    ELSE CompileFrom(rules, k + 1, Compose(compiled, rules[k]))

Compile(rules) ==
    IF Len(rules) > 0 THEN CompileFrom(rules, 2, rules[1]) ELSE IdentityRule

\* ----------------------------------------------------------- QueryExecutor
\* new QueryExecutor(query, iterable)
QueryExecutor(query, iterable) == [query |-> query, iterable |-> iterable]

\* *[Symbol.iterator]() { yield* this.query(this.iterable); }
\* The generator objects one iteration of an executor creates: the chain of
\* this.query over this.iterable, and on top the executor's own delegating
\* generator.
IteratorChain(query) == Chain(query) \o <<[kind |-> "iterator"]>>

\* Mutant of StartFrames: the counters live in the rule's closure, outside
\* the generator body, and go on from where the previous iteration left them.
StartFramesShared(chain, prior) ==
    [i \in 1..Len(chain) |->
        IF Len(prior) = Len(chain) THEN [NewFrame EXCEPT !.c = prior[i].c] ELSE NewFrame]

\* Mutant of StartFrames: the executor keeps the generator objects of its
\* previous iteration and iterates them again.
StartFramesReused(chain, prior) ==
    IF Len(prior) = Len(chain) THEN prior ELSE [i \in 1..Len(chain) |-> NewFrame]

\* The locals of the generator objects of a new iteration.  `prior` holds the
\* frames the executor's previous iteration left behind: every generator
\* body declares its counter afresh (let i = 0, let taken = 0, ...), so
\* nothing of it is carried over.
StartFrames(chain, prior) == [i \in 1..Len(chain) |-> NewFrame]

NewMachine(chain, src, prior) ==
    [fr |-> StartFrames(chain, prior),
     si |-> GetIterator(src),
     pulled |-> [i \in 1..Len(chain) |-> 0]]

\* The caller's callbacks for foreach / iforeach:
\*   log      records its arguments
\*   boomAt1  raises at its second invocation
ConsumerNames == {"log", "boomAt1"}
CallConsumer(fn, k) == IF fn = "boomAt1" /\ k = 1 THEN "raise" ELSE "ok"

\* collect():  Array.from(this)
RECURSIVE ArrayFrom(_, _, _)
ArrayFrom(chain, m, out) ==
    LET p == Pull(chain, Len(chain), m) IN
    CASE p.r.t = "value" -> ArrayFrom(chain, p.m, Append(out, p.r.v))
      [] p.r.t = "done" -> [m |-> p.m, out |-> out, raised |-> FALSE]
      [] OTHER -> [m |-> p.m, out |-> out, raised |-> TRUE]

\* Mutant of ForOfThis: the whole result is produced first, and fn is
\* invoked on it afterwards.
ForOfThisBuffered(chain, m, fn, out) ==
    LET all == ArrayFrom(chain, m, <<>>)
        stop == {k \in 1..Len(all.out) : CallConsumer(fn, k - 1) = "raise"}
    IN  IF stop = {} THEN all
        ELSE [m |-> all.m, raised |-> TRUE,
              out |-> SubSeq(all.out, 1, CHOOSE k \in stop : \A o \in stop : k <= o)]

\* foreach(fn):   for (const val of this) fn(val);
\* iforeach(fn):  let i = 0; for (const val of this) fn(val, i++);
\* `out` collects the values fn was invoked with.  A raise by fn leaves the
\* for-of loop, which closes the iterator.
RECURSIVE ForOfThis(_, _, _, _)
ForOfThis(chain, m, fn, out) ==
    LET p == Pull(chain, Len(chain), m) IN
    CASE p.r.t = "value" ->
            IF CallConsumer(fn, Len(out)) = "raise"
            THEN [m |-> Return(chain, Len(chain), p.m),
                  out |-> Append(out, p.r.v), raised |-> TRUE]
            ELSE ForOfThis(chain, p.m, fn, Append(out, p.r.v))
      [] p.r.t = "done" -> [m |-> p.m, out |-> out, raised |-> FALSE]
      [] OTHER -> [m |-> p.m, out |-> out, raised |-> TRUE]

\* ------------------------------------------------------------------- state
VARIABLES
    queries,   \* Query objects: queries[q] is the id of the array this.rules holds
    arrays,    \* array objects: arrays[a] is the sequence of rules in array a
    stages,    \* per Query, the stages it was given, in order, since query()
               \* (through extend(): the stages its parent had at that instant)
    pushed,    \* how many rules the scenario has appended so far
    call,      \* the last call on a Query or QueryExecutor, and what it returned
    exe,       \* QueryExecutor objects: [query, iterable] (iterable: a source id, 0 unset)
    srcs,      \* the iterables handed to on()
    run,       \* the last terminal operation: what it did and the machine it left
    prev,      \* the terminal operation before it
    join,      \* acollect's promises and the Promise.all over them
    its        \* iterator objects made by executor[Symbol.iterator](), by hand

vars == <<queries, arrays, stages, pushed, call, exe, srcs, run, prev, join, its>>

NoCall == [op |-> "none"]
NoRun == [op |-> "none"]
NoJoin == [st |-> "none", promises |-> <<>>]

\* --------------------------------------------------------- scenario inputs
\* Source sequences: the prefixes, up to MaxLen elements, of four families.
\*   nums    1, 2, 3, ...
\*   groups  [1], [2, 2], [], [4], [5, 5], [], ...
\*   mixed   [1, 2], 2, 3, ...       (a group, then values that are not iterable)
\*   recs    {a: 1, b: [1]}, 2, undefined, {a: 4, b: [4]}, ...
Families == {"nums", "groups", "mixed", "recs"}
Item(family, k) ==
    CASE family = "nums" -> Num(k)
      [] family = "groups" -> Arr([j \in 1..(k % 3) |-> Num(k)])
      [] family = "mixed" -> IF k = 1 THEN Arr(<<Num(1), Num(2)>>) ELSE Num(k)
      [] OTHER -> CASE k % 3 = 1 -> Obj(Num(k), Arr(<<Num(k)>>))
                    [] k % 3 = 2 -> Num(k)
                    [] OTHER -> Undef
InputsOf(families) ==
    {[k \in 1..len |-> Item(family, k)] : family \in families, len \in 0..MaxLen}

\* The stages the scenarios of Spec append.
StageChoices ==
    {BuildWhereRule("evenIdx"), BuildFlatRule(-1), BuildFlatRule(1),
     BuildTakeRule(1), BuildSkipRule(1), BuildMapRule("boomAt1")}

RECURSIVE SeqsUpTo(_, _)
SeqsUpTo(S, n) ==
    IF n = 0 THEN {<<>>}
    ELSE LET shorter == SeqsUpTo(S, n - 1) IN
         shorter \cup {Append(q, x) : q \in shorter, x \in S}

Pipelines == SeqsUpTo(StageChoices, MaxStages)

\* The caller's callbacks for acollect:
\*   identity  x => x, acollect's default: a plain value, which Promise.all
\*             takes as a promise already resolved to it
\*   pair      async (v, i) => { await ...; return [v, i]; }: a promise that
\*             is pending when fn returns and may be rejected
AsyncNames == {"identity", "pair"}
CallAsync(fn, val, i) ==
    IF fn = "identity"
    THEN [st |-> "pending", v |-> val, plain |-> TRUE]
    ELSE [st |-> "pending", v |-> Arr(<<val, Num(i)>>), plain |-> FALSE]

\* Mutant of PushPromise: the promise is put in front (unshift).
PushPromiseFront(promises, promise) == <<promise>> \o promises

\* promises.push(...)
PushPromise(promises, promise) == Append(promises, promise)

\* Mutant of Launch: the loop stops after its first fn(val, i++), to wait for
\* that promise before it goes on.
LaunchAwaitingEach(chain, m, fn, i, promises, out) ==
    LET p == Pull(chain, Len(chain), m) IN
    CASE p.r.t = "value" ->
            [m |-> p.m, out |-> Append(out, p.r.v), raised |-> FALSE,
             promises |-> PushPromise(promises, CallAsync(fn, p.r.v, i))]
      [] p.r.t = "done" ->
            [m |-> p.m, out |-> out, raised |-> FALSE, promises |-> promises]
      [] OTHER ->
            [m |-> p.m, out |-> out, raised |-> TRUE, promises |-> promises]

\* acollect(fn):
\*   let i = 0; const promises = [];
\*   for (const val of this) promises.push(fn(val, i++));
\* `out` collects the values fn was invoked with.
RECURSIVE Launch(_, _, _, _, _, _)
Launch(chain, m, fn, i, promises, out) ==
    LET p == Pull(chain, Len(chain), m) IN
    CASE p.r.t = "value" ->
            Launch(chain, p.m, fn, i + 1,
                   PushPromise(promises, CallAsync(fn, p.r.v, i)), Append(out, p.r.v))
      [] p.r.t = "done" ->
            [m |-> p.m, out |-> out, raised |-> FALSE, promises |-> promises]
      [] OTHER ->
            [m |-> p.m, out |-> out, raised |-> TRUE, promises |-> promises]

\* Promise.all(promises): pending until every promise is fulfilled, or one
\* is rejected; fulfilled at once for an empty list.  values[k] waits for
\* promises[k]; reason is the promise it was rejected with (0: none); order
\* lists the promises in the order they settled.
PromiseAll(promises) ==
    [st |-> IF promises = <<>> THEN "fulfilled" ELSE "pending",
     promises |-> promises,
     values |-> [k \in DOMAIN promises |-> Undef],
     remaining |-> Len(promises),
     reason |-> 0,
     order |-> <<>>]

\* -------------------------------------------------- terminal operations
\* Mutant of ThisQuery: the executor compiles the list of the Query that made
\* it anew at every iteration.
ThisQueryRecompiled(e) == Compile(arrays[queries[exe[e].from]])

\* this.query, the rule the constructor was given.
ThisQuery(e) == exe[e].query

\* The executor's rule applied to the iterable it is bound to now.
Bound(e) == IF exe[e].iterable = 0 THEN Unset ELSE srcs[exe[e].iterable]

PriorFrames(e) == IF run.op # "none" /\ run.e = e THEN run.m.fr ELSE <<>>

\* What a terminal operation leaves: a generator or iterator object handed to
\* on() keeps the position the iteration left it at; an array is untouched.
SourcesAfter(e, m) ==
    IF exe[e].iterable # 0 /\ srcs[exe[e].iterable].kind \in {"gen", "iter"}
    THEN [srcs EXCEPT ![exe[e].iterable] = m.si]
    ELSE srcs

Record(op, e, fn, res) ==
    [op |-> op, e |-> e, fn |-> fn, src |-> exe[e].iterable, before |-> Bound(e),
     chain |-> IteratorChain(ThisQuery(e)),
     out |-> res.out, raised |-> res.raised, m |-> res.m]

\* collect() { return Array.from(this); }
Collect(e) ==
    LET chain == IteratorChain(ThisQuery(e))
        res == ArrayFrom(chain, NewMachine(chain, Bound(e), PriorFrames(e)), <<>>)
    IN  /\ run' = Record("collect", e, "none", res)
        /\ prev' = run
        /\ srcs' = SourcesAfter(e, res.m)
        /\ UNCHANGED <<queries, arrays, stages, pushed, call, exe, join, its>>

\* foreach(fn) { for (const val of this) fn(val); }
Foreach(e, fn) ==
    LET chain == IteratorChain(ThisQuery(e))
        res == ForOfThis(chain, NewMachine(chain, Bound(e), PriorFrames(e)), fn, <<>>)
    IN  /\ run' = Record("foreach", e, fn, res)
        /\ prev' = run
        /\ srcs' = SourcesAfter(e, res.m)
        /\ UNCHANGED <<queries, arrays, stages, pushed, call, exe, join, its>>

\* iforeach(fn) { let i = 0; for (const val of this) fn(val, i++); }
IForeach(e, fn) ==
    LET chain == IteratorChain(ThisQuery(e))
        res == ForOfThis(chain, NewMachine(chain, Bound(e), PriorFrames(e)), fn, <<>>)
    IN  /\ run' = Record("iforeach", e, fn, res)
        /\ prev' = run
        /\ srcs' = SourcesAfter(e, res.m)
        /\ UNCHANGED <<queries, arrays, stages, pushed, call, exe, join, its>>

\* acollect(fn) { ...; return Promise.all(promises); }
\* A failure of the pipeline leaves acollect before Promise.all is called.
Acollect(e, fn) ==
    LET chain == IteratorChain(ThisQuery(e))
        res == Launch(chain, NewMachine(chain, Bound(e), PriorFrames(e)), fn, 0, <<>>, <<>>)
    IN  /\ run.op = "none"
        /\ run' = Record("acollect", e, fn, res)
        /\ prev' = run
        /\ srcs' = SourcesAfter(e, res.m)
        /\ join' = IF res.raised
                   THEN [st |-> "threw", promises |-> res.promises]
                   ELSE PromiseAll(res.promises)
        /\ UNCHANGED <<queries, arrays, stages, pushed, call, exe, its>>

\* promises[k] is fulfilled: Promise.all stores its value at k and, when it
\* was the last one outstanding, fulfils with the values.
Fulfil(k) ==
    /\ join.st \in {"pending", "rejected"}
    /\ join.promises[k].st = "pending"
    /\ join' = [join EXCEPT
                  !.promises[k].st = "fulfilled",
                  !.values[k] = join.promises[k].v,
                  !.remaining = @ - 1,
                  !.order = Append(@, k),
                  !.st = IF @ = "pending" /\ join.remaining = 1 THEN "fulfilled" ELSE @]
    /\ UNCHANGED <<queries, arrays, stages, pushed, call, exe, srcs, run, prev, its>>

\* Mutant of Reject: the aggregate takes the reason of the latest rejection.
RejectLatestWins(k) ==
    /\ join.st \in {"pending", "rejected"}
    /\ join.promises[k].st = "pending" /\ ~join.promises[k].plain
    /\ join' = [join EXCEPT
                  !.promises[k].st = "rejected",
                  !.order = Append(@, k),
                  !.reason = k,
                  !.st = "rejected"]
    /\ UNCHANGED <<queries, arrays, stages, pushed, call, exe, srcs, run, prev, its>>

\* promises[k] is rejected: Promise.all, if still pending, rejects with it;
\* a promise already rejected stays as it is.
Reject(k) ==
    /\ join.st \in {"pending", "rejected"}
    /\ join.promises[k].st = "pending" /\ ~join.promises[k].plain
    /\ join' = [join EXCEPT
                  !.promises[k].st = "rejected",
                  !.order = Append(@, k),
                  !.reason = IF join.st = "pending" THEN k ELSE @,
                  !.st = "rejected"]
    /\ UNCHANGED <<queries, arrays, stages, pushed, call, exe, srcs, run, prev, its>>

\* ------------------------------------------------------------ Spec
\* One executor, query()...on(source) for a pipeline and a source, then
\* terminal operations in any order.
InitWith(pipelines, families) ==
    /\ queries = <<>> /\ arrays = <<>> /\ stages = <<>> /\ pushed = 0 /\ call = NoCall
    /\ \E pipeline \in pipelines, kind \in SourceKinds, items \in InputsOf(families) :
          /\ exe = <<QueryExecutor(Compile(pipeline), 1)>>
          /\ srcs = <<Source(kind, items)>>
    /\ run = NoRun /\ prev = NoRun /\ join = NoJoin /\ its = <<>>

Init == InitWith(Pipelines, {"nums", "groups", "mixed"})

Next ==
    \/ Collect(1)
    \/ \E fn \in ConsumerNames : Foreach(1, fn)

Spec == Init /\ [][Next]_vars

\* SpecTake: the same, for the pipelines that end in take(n), n in 0..MaxN,
\* alone or after one other stage.
TakePipelines ==
    {<<BuildTakeRule(n)>> : n \in 0..MaxN}
    \cup {<<up, BuildTakeRule(n)>> :
             up \in {BuildMapRule("addIdx"), BuildWhereRule("gt1"), BuildFlatRule(-1)},
             n \in 0..MaxN}

InitTake == InitWith(TakePipelines, Families)

SpecTake == InitTake /\ [][Next]_vars

\* SpecStage: the same, for the pipelines of a flat stage alone, with n
\* omitted (-1) or in 0..MaxN, and of one or two where stages.
StagePipelines ==
    {<<BuildFlatRule(n)>> : n \in -1..MaxN}
    \cup {<<BuildWhereRule(fn)>> : fn \in {"gt1", "evenIdx"}}
    \cup {<<BuildWhereRule("gt1"), BuildWhereRule("evenIdx")>>,
          <<BuildWhereRule("evenIdx"), BuildWhereRule("gt1")>>}

InitStage == InitWith(StagePipelines, Families)

SpecStage == InitStage /\ [][Next]_vars

\* SpecAsync: one executor, one acollect(fn), then the promises settle in
\* any order.
AsyncPipelines ==
    {<<>>, <<BuildSkipRule(1)>>, <<BuildWhereRule("gt1")>>, <<BuildFlatRule(-1)>>}

InitAsync == InitWith(AsyncPipelines, {"nums", "groups"})

NextAsync ==
    \/ \E fn \in AsyncNames : Acollect(1, fn)
    \/ \E k \in 1..MaxLen : k \in DOMAIN join.promises /\ Fulfil(k)
    \/ \E k \in 1..MaxLen : k \in DOMAIN join.promises /\ Reject(k)

SpecAsync == InitAsync /\ [][NextAsync]_vars

\* ------------------------------------------------------------ Query calls
\* this.rules of Query q.
RulesOf(arrs, qs, q) == arrs[qs[q]]
Rules(q) == RulesOf(arrays, queries, q)

\* The id a new array object gets: the first one no Query refers to.
FreshArray ==
    CHOOSE a \in 1..(Len(arrays) + 1) :
        /\ \A q \in DOMAIN queries : queries[q] # a
        /\ \A b \in 1..(a - 1) : \E q \in DOMAIN queries : queries[q] = b

Store(arrs, a, rules) ==
    IF a > Len(arrs) THEN Append(arrs, rules) ELSE [arrs EXCEPT ![a] = rules]

\* Mutant of PushRule: the rule is put in front (unshift).
PushRuleFront(rules, rule) == <<rule>> \o rules

\* _pushrule(rule) { this.rules.push(rule); return this; }
PushRule(rules, rule) == Append(rules, rule)

PushCall(op, q, rule) ==
    /\ pushed < MaxPushed
    /\ arrays' = [arrays EXCEPT ![queries[q]] = PushRule(@, rule)]
    /\ stages' = [stages EXCEPT ![q] = Append(@, rule)]
    /\ pushed' = pushed + 1
    /\ call' = [op |-> op, self |-> q, ret |-> q]
    /\ UNCHANGED <<queries, exe, srcs, run, prev, join, its>>

Select(q, fields) == PushCall("select", q, BuildSelectRule(fields))
Where(q, fn) == PushCall("where", q, BuildWhereRule(fn))
Flat(q, n) == PushCall("flat", q, BuildFlatRule(n))
Take(q, n) == PushCall("take", q, BuildTakeRule(n))
Skip(q, n) == PushCall("skip", q, BuildSkipRule(n))
Map(q, fn) == PushCall("map", q, BuildMapRule(fn))

\* What compile() leaves in this.rules: it reads the list and writes nothing.
RulesAfterCompile(rules) == rules

\* compile()
CompileCall(q) ==
    /\ call' = [op |-> "compile", self |-> q, ret |-> Compile(Rules(q))]
    /\ arrays' = [arrays EXCEPT ![queries[q]] = RulesAfterCompile(@)]
    /\ UNCHANGED <<queries, stages, pushed, exe, srcs, run, prev, join, its>>

\* on(iterable) { return new QueryExecutor(this.compile(), iterable); }
\* s is a source id, or 0 for a call without an argument.  The new executor
\* is what the call returns.
On(q, s) ==
    /\ call' = [op |-> "on", self |-> q, ret |-> QueryExecutor(Compile(Rules(q)), s)]
    /\ arrays' = [arrays EXCEPT ![queries[q]] = RulesAfterCompile(@)]
    /\ UNCHANGED <<queries, stages, pushed, exe, srcs, run, prev, join, its>>

\* build() { return this.on(); }
Build(q) ==
    /\ call' = [op |-> "build", self |-> q, ret |-> QueryExecutor(Compile(Rules(q)), 0)]
    /\ arrays' = [arrays EXCEPT ![queries[q]] = RulesAfterCompile(@)]
    /\ UNCHANGED <<queries, stages, pushed, exe, srcs, run, prev, join, its>>

\* Mutant of ExtendArray: new Query(this.rules), the parent's own array.
ExtendArrayShared(q, fresh) == queries[q]

\* extend() { return new Query([this.compile()]); }
\* The array the new Query holds: the array literal, a new object.
ExtendArray(q, fresh) == fresh

Extend(q) ==
    LET a == ExtendArray(q, FreshArray) IN
    /\ Len(queries) = 1
    /\ queries' = Append(queries, a)
    /\ arrays' = IF a = FreshArray
                 THEN Store(arrays, a, <<Compile(RulesAfterCompile(Rules(q)))>>)
                 ELSE arrays
    /\ stages' = Append(stages, stages[q])
    /\ call' = [op |-> "extend", self |-> q, ret |-> Len(queries) + 1]
    /\ UNCHANGED <<pushed, exe, srcs, run, prev, join, its>>

\* Mutant of PackedRules: only the last rule is kept.
PackedRulesLast(rules) == IF Len(rules) > 0 THEN <<rules[Len(rules)]>> ELSE rules

\* pack() { if (this.rules.length > 0) this.rules = [this.compile()]; return this; }
\* The list this.rules holds afterwards.
PackedRules(rules) == IF Len(rules) > 0 THEN <<Compile(rules)>> ELSE rules

\* The id of the array object a Query's new list gets: the array it drops is
\* collected at once and its id taken again, unless another Query holds it.
ReplacingArray(q) ==
    IF \E other \in DOMAIN queries : other # q /\ queries[other] = queries[q]
    THEN FreshArray
    ELSE queries[q]

Pack(q) ==
    /\ IF Len(Rules(q)) > 0
       THEN /\ queries' = [queries EXCEPT ![q] = ReplacingArray(q)]
            /\ arrays' = Store(arrays, ReplacingArray(q), PackedRules(Rules(q)))
       ELSE UNCHANGED <<queries, arrays>>
    /\ call' = [op |-> "pack", self |-> q, ret |-> q]
    /\ UNCHANGED <<stages, pushed, exe, srcs, run, prev, join, its>>

\* ------------------------------------------------ executors that are kept
\* e = q.on(iterable) / e = q.build(): the caller keeps the executor.  With
\* the executor are noted the Query that made it and the stages that Query
\* had been given by then.
Kept(executor, q) ==
    [query |-> executor.query, iterable |-> executor.iterable,
     from |-> q, made |-> stages[q]]

\* on(iterable) { return new QueryExecutor(this.compile(), iterable); }
KeepOn(q, s) ==
    /\ exe' = Append(exe, Kept(QueryExecutor(Compile(Rules(q)), s), q))
    /\ arrays' = [arrays EXCEPT ![queries[q]] = RulesAfterCompile(@)]
    /\ call' = [op |-> "on", self |-> q, ret |-> Len(exe) + 1]
    /\ UNCHANGED <<queries, stages, pushed, srcs, run, prev, join, its>>

\* build() { return this.on(); }: the constructor's iterable=null.
KeepBuild(q) ==
    /\ exe' = Append(exe, Kept(QueryExecutor(Compile(Rules(q)), 0), q))
    /\ arrays' = [arrays EXCEPT ![queries[q]] = RulesAfterCompile(@)]
    /\ call' = [op |-> "build", self |-> q, ret |-> Len(exe) + 1]
    /\ UNCHANGED <<queries, stages, pushed, srcs, run, prev, join, its>>

\* QueryExecutor.on(iterable) { this.iterable = iterable; return this; }
ExecutorOn(e, s) ==
    /\ exe' = [exe EXCEPT ![e].iterable = s]
    /\ call' = [op |-> "executor.on", self |-> e, ret |-> e, arg |-> s]
    /\ UNCHANGED <<queries, arrays, stages, pushed, srcs, run, prev, join, its>>

\* Mutant of ExtendedRules: the list of the Query that made the executor.
ExtendedRulesOfQuery(e) == arrays[queries[exe[e].from]]

\* QueryExecutor.extend() { return new Query([this.query]); }
\* The list of the new Query.
ExtendedRules(e) == <<exe[e].query>>

ExecutorExtend(e) ==
    /\ Len(queries) = 1
    /\ queries' = Append(queries, FreshArray)
    /\ arrays' = Store(arrays, FreshArray, ExtendedRules(e))
    /\ stages' = Append(stages, exe[e].made)
    /\ call' = [op |-> "executor.extend", self |-> e, ret |-> Len(queries) + 1]
    /\ UNCHANGED <<pushed, exe, srcs, run, prev, join, its>>

\* The iterables of the executor scenarios: an array of numbers and a number
\* (not iterable); 0 stands for no iterable.
NotIterable == Source("number", <<>>)

InitExecutor ==
    /\ queries = <<1>> /\ arrays = << <<>> >> /\ stages = << <<>> >>
    /\ pushed = 0 /\ call = NoCall
    /\ exe = <<>>
    /\ srcs = <<Source("array", [k \in 1..MaxLen |-> Item("nums", k)]), NotIterable>>
    /\ run = NoRun /\ prev = NoRun /\ join = NoJoin /\ its = <<>>

\* SpecExecutor: A = query(); stages are appended to A and A is packed; one
\* executor is made of A, by on(iterable) or build(), at any moment; it is
\* rebound, extended and collected (twice at most).
NextExecutor ==
    \/ Skip(1, 1)
    \/ Pack(1)
    \/ \E s \in DOMAIN srcs : exe = <<>> /\ KeepOn(1, s)
    \/ exe = <<>> /\ KeepBuild(1)
    \/ \E e \in DOMAIN exe, s \in 0..Len(srcs) : ExecutorOn(e, s)
    \/ \E e \in DOMAIN exe : ExecutorExtend(e)
    \/ \E e \in DOMAIN exe : prev.op = "none" /\ Collect(e)

SpecExecutor == InitExecutor /\ [][NextExecutor]_vars

\* SpecExtend: the same start; B = e.extend() for an executor e of A; stages
\* are appended to A and B and they are packed; B gets an executor of its
\* own; executors are rebound, and one of them is collected.
NextExtend ==
    \/ \E q \in DOMAIN queries : Skip(q, 1)
    \/ \E q \in DOMAIN queries : Pack(q)
    \/ \E q \in DOMAIN queries : Len(exe) = q - 1 /\ KeepOn(q, 1)
    \/ \E e \in DOMAIN exe, s \in 0..Len(srcs) : ExecutorOn(e, s)
    \/ \E e \in DOMAIN exe : ExecutorExtend(e)
    \/ \E e \in DOMAIN exe : run.op = "none" /\ Collect(e)

SpecExtend == InitExecutor /\ [][NextExtend]_vars

\* ---------------------------------------------------------- SpecIter
\* Iterations driven by hand: it = e[Symbol.iterator](), then it.next() as
\* the caller pleases, several iterations being alive at once (nested for-of
\* loops over one executor, or over two executors of one Query).
MaxIters == 2

\* e[Symbol.iterator](): a new generator object whose body was not entered;
\* nothing is requested from the pipeline or from the source.
Iterate(e) ==
    /\ Len(its) < MaxIters
    /\ LET chain == IteratorChain(ThisQuery(e)) IN
       its' = Append(its, [e |-> e, chain |-> chain, out |-> <<>>, st |-> "live",
                           m |-> NewMachine(chain, Bound(e), <<>>)])
    /\ UNCHANGED <<queries, arrays, stages, pushed, call, exe, srcs, run, prev, join>>

\* Mutant of StageState: the counters are variables of the rule's closure,
\* one per stage, which every iteration of the rule reads and advances.
StageStateOfClosure(k) ==
    LET chain == its[k].chain
        all(i) == {its[j].m.fr[i].c : j \in {j \in DOMAIN its : its[j].chain = chain}}
    IN  [its[k].m EXCEPT !.fr = [i \in DOMAIN chain |->
            [@[i] EXCEPT !.c = CHOOSE c \in all(i) : \A o \in all(i) : o <= c]]]

\* The generator objects iteration k resumes: its own, whose counters are
\* locals of the generator bodies (let i = 0 inside function*(it)).
StageState(k) == its[k].m

\* it.next() on iteration k: one request to the top of its chain.  `out`
\* collects the values delivered to the caller; st tells how the last
\* request ended (a value: "live"; done; raised).
IteratorNext(k) ==
    /\ its[k].st = "live"
    /\ LET p == Pull(its[k].chain, Len(its[k].chain), StageState(k)) IN
       its' = [its EXCEPT ![k] =
                  [@ EXCEPT !.m = p.m,
                            !.out = IF p.r.t = "value" THEN Append(@, p.r.v) ELSE @,
                            !.st = CASE p.r.t = "value" -> "live"
                                     [] p.r.t = "done" -> "done"
                                     [] OTHER -> "raised"]]
    /\ UNCHANGED <<queries, arrays, stages, pushed, call, exe, srcs, run, prev, join>>

\* The pipelines of SpecIter: every stage that keeps a counter, alone, and
\* two stages with counters of their own.
IterPipelines ==
    {<<>>, <<BuildWhereRule("evenIdx")>>, <<BuildWhereRule("boomAt1")>>,
     <<BuildFlatRule(-1)>>, <<BuildFlatRule(1)>>, <<BuildTakeRule(1)>>,
     <<BuildSkipRule(1)>>, <<BuildMapRule("addIdx")>>,
     <<BuildWhereRule("evenIdx"), BuildMapRule("addIdx")>>,
     <<BuildFlatRule(-1), BuildWhereRule("evenIdx")>>}

\* Two executors made of one Query, q.on(a) twice, a an array.
InitIter ==
    /\ queries = <<>> /\ arrays = <<>> /\ stages = <<>> /\ pushed = 0 /\ call = NoCall
    /\ \E pipeline \in IterPipelines, items \in InputsOf({"nums", "groups"}) :
          /\ exe = <<QueryExecutor(Compile(pipeline), 1), QueryExecutor(Compile(pipeline), 1)>>
          /\ srcs = <<Source("array", items)>>
    /\ run = NoRun /\ prev = NoRun /\ join = NoJoin /\ its = <<>>

NextIter ==
    \/ \E e \in DOMAIN exe : Iterate(e)
    \/ \E k \in DOMAIN its : IteratorNext(k)

SpecIter == InitIter /\ [][NextIter]_vars

\* ------------------------------------------------------- SpecBuilder
\* A = query(), then any calls on A and, once B = A.extend() was called, on B.
InitBuilder ==
    /\ queries = <<1>> /\ arrays = << <<>> >> /\ stages = << <<>> >>
    /\ pushed = 0 /\ call = NoCall
    /\ exe = <<>>
    /\ srcs = <<Source("array", [k \in 1..MaxLen |-> Item("nums", k)])>>
    /\ run = NoRun /\ prev = NoRun /\ join = NoJoin /\ its = <<>>

NextBuilder ==
    \/ \E q \in DOMAIN queries : Select(q, Str("a"))
    \/ \E q \in DOMAIN queries : Where(q, "evenIdx")
    \/ \E q \in DOMAIN queries : Flat(q, 1)
    \/ \E q \in DOMAIN queries : Take(q, 1)
    \/ \E q \in DOMAIN queries : Skip(q, 1)
    \/ \E q \in DOMAIN queries : Map(q, "wrap")
    \/ \E q \in DOMAIN queries : CompileCall(q)
    \/ \E q \in DOMAIN queries : Build(q)
    \/ \E q \in DOMAIN queries, s \in DOMAIN srcs : On(q, s)
    \/ \E q \in DOMAIN queries : Extend(q)
    \/ \E q \in DOMAIN queries : Pack(q)

SpecBuilder == InitBuilder /\ [][NextBuilder]_vars

\* ------------------------------------------------------------------ claims
\* What an iterable still has to give when an iteration starts on it.
Remaining(src) ==
    IF src.kind \notin SourceKinds \/ src.closed THEN <<>>
    ELSE SubSeq(src.items, src.pos + 1, Len(src.items))

Min(a, b) == IF a <= b THEN a ELSE b

\* The places of the take stages in the chain of run r.
TakeStagesOf(r) == {i \in DOMAIN r.chain : r.chain[i].kind = "take"}

\* C1: take(n) yields exactly the first min(n, length) elements of its input,
\* in order, and obtains at most n elements from its upstream.
C1_TakeYieldsPrefixAndPullsAtMostN ==
    (run.op = "collect" /\ ~run.raised) =>
        \A i \in TakeStagesOf(run) :
            /\ run.m.pulled[i] <= run.chain[i].n
            /\ i = 1 =>
                 run.out = SubSeq(Remaining(run.before), 1,
                                  Min(run.chain[i].n, Len(Remaining(run.before))))

\* The consumption of run r ended with elements of its source still unread.
EndedEarly(r) ==
    /\ r.op # "none"
    /\ r.m.si.kind \in SourceKinds
    /\ r.m.si.pos < Len(r.m.si.items)

\* No generator of run r is left suspended, and its source iterator, when it
\* has a return() method, has been closed.
AllFinalized(r) ==
    /\ \A i \in DOMAIN r.m.fr : r.m.fr[i].st = "done"
    /\ r.m.si.kind = "gen" => r.m.si.closed

\* C2: when a terminal operation ends before its source is exhausted (take
\* reached its count, flat(n) its group count, fn or a stage raised), every
\* generator of the chain has completed and the source iterator was closed.
C2_EarlyExitFinalizesChain == EndedEarly(run) => AllFinalized(run)

\* C2's case: foreach's fn raised over a chain of at least two stages on a
\* generator source that still had elements, and all of it was closed.
C2_Witness ==
    /\ run.op = "foreach" /\ run.raised /\ Len(run.out) = 2
    /\ Len(run.chain) >= 3
    /\ run.m.si.kind = "gen" /\ EndedEarly(run) /\ run.before.pos = 0
    /\ AllFinalized(run)

\* prev and run are two consecutive collect() calls of one executor on the
\* same one-shot source, new at the first call, which returned values.
TwoCollectsOneShot ==
    /\ prev.op = "collect" /\ run.op = "collect" /\ prev.e = run.e
    /\ prev.src = run.src
    /\ prev.before.kind \in {"gen", "iter"}
    /\ prev.before.pos = 0 /\ ~prev.before.closed
    /\ ~prev.raised /\ prev.out # <<>>

\* C8 as stated: on a one-shot source, for every pipeline, a first collect()
\* that returned values is followed by a second collect() that returns none.
C8_SecondCollectEmpty ==
    TwoCollectsOneShot => (~run.raised /\ run.out = <<>>)

\* C8 amended: ... provided the source is a generator (which early
\* termination closes) or the first consumption read the source to its end.
C8_SecondCollectEmptyWhenFinalized ==
    (TwoCollectsOneShot
        /\ (prev.before.kind = "gen" \/ prev.m.si.pos = Len(prev.m.si.items)))
    => (~run.raised /\ run.out = <<>>)

\* C8's case: take ended the first collect() before the generator was
\* exhausted, and the second collect() returned nothing.
C8_Witness ==
    /\ TwoCollectsOneShot
    /\ prev.before.kind = "gen" /\ EndedEarly(prev)
    /\ TakeStagesOf(prev) # {}
    /\ run.out = <<>>

\* C9: consecutive collect() calls of one executor on the same array return
\* identical results (or fail alike): every stage counter starts from zero.
C9_ArrayCollectRepeats ==
    (/\ prev.op = "collect" /\ run.op = "collect" /\ prev.e = run.e
     /\ prev.before.kind = "array" /\ run.before = prev.before)
    => (run.out = prev.out /\ run.raised = prev.raised)

\* C9's case: two collects over an array through a stage whose counter
\* advanced, both returning the same values.
C9_Witness ==
    /\ prev.op = "collect" /\ run.op = "collect"
    /\ prev.before.kind = "array" /\ run.before = prev.before
    /\ \E i \in DOMAIN run.chain :
          run.chain[i].kind \in {"where", "skip", "take"} /\ prev.m.fr[i].c > 0
    /\ run.out # <<>> /\ run.out = prev.out

\* ------------------------------------------------- claims on the Query
\* The arrays the pipelines are compared on: one of each family, MaxLen long.
TestInputs == {[k \in 1..MaxLen |-> Item(family, k)] : family \in Families}

\* What collect() gives for a rule on an array: the values, or a failure.
Output(rule, items) ==
    LET chain == IteratorChain(rule)
        res == ArrayFrom(chain, NewMachine(chain, Source("array", items), <<>>), <<>>)
    IN  IF res.raised THEN [raised |-> TRUE, out |-> <<>>]
        ELSE [raised |-> FALSE, out |-> res.out]

\* The outputs, on every test input, of the pipeline a list of rules compiles to.
OutputsOf(rules) == [items \in TestInputs |-> Output(Compile(rules), items)]

\* Two lists of rules compile to pipelines of the same outputs.
SameOutputs(rules, others) ==
    rules = others \/ OutputsOf(rules) = OutputsOf(others)

\* C3: after B = A.extend(), whatever is appended to or packed on A or B,
\* each Query's output is that of its own stages: A's own, and for B the
\* stages A had at the extend() followed by those B was given since.
C3_ExtendIsolates ==
    \A q \in DOMAIN queries : SameOutputs(Rules(q), stages[q])

\* C3's case: A had a stage, B = A.extend(), and then one of them was given
\* a stage the other did not get; their outputs differ.
C3_Witness ==
    /\ Len(queries) = 2
    /\ stages[1] # <<>> /\ stages[2] # <<>>
    /\ stages[1][1] = stages[2][1]
    /\ Len(stages[1]) # Len(stages[2])
    /\ OutputsOf(Rules(1)) # OutputsOf(Rules(2))

\* Running R1's pipeline on an array to its end and R2's pipeline on what it
\* returned.
Sequential(R1, R2, items) ==
    LET first == Output(Compile(R1), items) IN
    IF first.raised THEN first ELSE Output(Compile(R2), first.out)

Splits(rules) == 0..Len(rules)
Front(rules, k) == SubSeq(rules, 1, k)
Back(rules, k) == SubSeq(rules, k + 1, Len(rules))

\* C4 as stated: compile() of the empty list is the identity, and for every
\* split R1 ++ R2 of a Query's list and every source, the compiled pipeline
\* gives what R2's pipeline gives on the full output of R1's pipeline.
C4_ComposeEqualsSequential ==
    \A q \in DOMAIN queries : \A items \in TestInputs :
        /\ Rules(q) = <<>> => Output(Compile(Rules(q)), items).out = items
        /\ \A k \in Splits(Rules(q)) :
              Output(Compile(Rules(q)), items)
                  = Sequential(Front(Rules(q), k), Back(Rules(q), k), items)

\* C4 amended: ... for every source on which R1's pipeline, run alone to its
\* end, raises no failure.  (whole is the output of the full list; a split
\* whose R1 or R2 is the full list reuses it where it is the same run.)
C4_ComposeEqualsSequentialWhenFirstCompletes ==
    \A rules \in {Rules(q) : q \in DOMAIN queries} : \A items \in TestInputs :
        LET whole == Output(Compile(rules), items) IN
        /\ rules = <<>> => whole.out = items
        /\ \A k \in Splits(rules) :
              LET R1 == Front(rules, k)
                  R2 == Back(rules, k)
                  first == IF R1 = rules THEN whole ELSE Output(Compile(R1), items)
              IN  ~first.raised =>
                      whole = IF R2 = rules /\ first.out = items THEN whole
                              ELSE Output(Compile(R2), first.out)

\* C4's case: a list of two rules, the first of which changes its input
\* without failing and the second of which changes it again.
C4_Witness ==
    \E q \in DOMAIN queries : \E items \in TestInputs :
        LET first == Output(Compile(Front(Rules(q), 1)), items)
            all == Output(Compile(Rules(q)), items)
        IN  /\ Len(Rules(q)) = 2
            /\ ~first.raised /\ first.out # items
            /\ ~all.raised /\ all.out # first.out /\ all.out # <<>>
            /\ all = Sequential(Front(Rules(q), 1), Back(Rules(q), 1), items)

\* C5: after pack() the list has exactly one element, the rule compile()
\* gave for the list before the call, whatever the number of stages.
C5_PackLeavesOneRule ==
    [][call'.op = "pack" =>
          /\ Len(RulesOf(arrays', queries', call'.self)) = 1
          /\ RulesOf(arrays', queries', call'.self)[1] = Compile(Rules(call'.self))]_vars

PushOps == {"select", "where", "flat", "take", "skip", "map"}

\* C6: pack() returns the Query it was called on and leaves its output on
\* every source as it was; a stage appended right after pack() gives the
\* output of the stages so far followed by that stage.
C6_PackKeepsOutput ==
    [][/\ call'.op = "pack" =>
            /\ call'.ret = call'.self
            /\ OutputsOf(RulesOf(arrays', queries', call'.self))
                   = OutputsOf(Rules(call'.self))
       /\ (call.op = "pack" /\ call'.op \in PushOps /\ call'.self = call.self) =>
            OutputsOf(RulesOf(arrays', queries', call'.self))
                = OutputsOf(stages'[call'.self])]_vars

\* C6's case: pack() folded a list of two stages into one rule.
C6_Witness ==
    /\ call.op = "pack"
    /\ Len(stages[call.self]) = 2
    /\ Len(Rules(call.self)) = 1
    /\ Rules(call.self)[1].kind = "comp"
    /\ \E items \in TestInputs : Output(Compile(Rules(call.self)), items).out # <<>>

KindsOf(op) == IF op = "select" THEN {"select", "selectAll"} ELSE {op}

\* C7: compile(), build(), on() and extend() leave every Query's list as it
\* was; select/where/flat/take/skip/map add one rule of their kind at the
\* end of the list of the Query they are called on, in place, and return
\* that Query; no call but pack() gives a Query another list.
C7_OnlyPackReplacesTheList ==
    [][/\ call'.op \in {"compile", "build", "on", "extend"} =>
            \A q \in DOMAIN queries :
                queries'[q] = queries[q] /\ RulesOf(arrays', queries', q) = Rules(q)
       /\ call'.op \in PushOps =>
            LET q == call'.self
                after == RulesOf(arrays', queries', q)
            IN  /\ call'.ret = q
                /\ Len(after) = Len(Rules(q)) + 1
                /\ Front(after, Len(Rules(q))) = Rules(q)
                /\ after[Len(after)].kind \in KindsOf(call'.op)
                /\ \A other \in DOMAIN queries \ {q} :
                      RulesOf(arrays', queries', other) = Rules(other)
       /\ call'.op # "pack" =>
            \A q \in DOMAIN queries : queries'[q] = queries[q]]_vars

\* C7's case: compile(), build(), on() or extend() returned on a Query that
\* has the two stages it was given.
C7_Witness ==
    /\ call.op \in {"compile", "build", "on", "extend"}
    /\ Len(Rules(call.self)) = 2
    /\ Rules(call.self) = stages[call.self]

\* C10: when every promise acollect(fn) launched is fulfilled, the promise
\* it returned is fulfilled with as many values as the pipeline produced,
\* the i-th being what fn(i-th produced value, i) resolved to, in whatever
\* order the promises settled.
C10_AcollectKeepsProductionOrder ==
    (/\ run.op = "acollect" /\ ~run.raised
     /\ \A k \in DOMAIN join.promises : join.promises[k].st = "fulfilled")
    => /\ join.st = "fulfilled"
       /\ Len(join.values) = Len(run.out)
       /\ \A k \in DOMAIN join.values :
             join.values[k] = CallAsync(run.fn, run.out[k], k - 1).v

\* C10's case: at least two promises, all fulfilled, the last launched
\* settling first.
C10_Witness ==
    /\ run.op = "acollect" /\ run.fn = "pair"
    /\ join.st = "fulfilled" /\ Len(join.values) >= 2
    /\ join.order[1] = Len(join.values)
    /\ \A k \in DOMAIN join.values : join.values[k] = Arr(<<run.out[k], Num(k - 1)>>)

\* The promises of acollect that have been rejected, and the first of them.
RejectedIn(j) == {k \in DOMAIN j.promises : j.promises[k].st = "rejected"}
FirstRejectedIn(j) ==
    j.order[CHOOSE n \in DOMAIN j.order :
                /\ j.order[n] \in RejectedIn(j)
                /\ \A o \in 1..(n - 1) : j.order[o] \notin RejectedIn(j)]

\* C11: as soon as one of acollect's promises is rejected the aggregate is
\* rejected, with that first rejection, whatever siblings are still
\* pending; the pending siblings stay pending until they settle themselves,
\* and no later fulfilment or rejection changes the aggregate.
C11_AcollectFailsWithFirstFailure ==
    [][/\ RejectedIn(join') # {} =>
            join'.st = "rejected" /\ join'.reason = FirstRejectedIn(join')
       /\ join.st = "rejected" =>
            join'.st = "rejected" /\ join'.reason = join.reason
       /\ \A k \in DOMAIN join.promises :
            (join.promises[k].st = "pending" /\ join'.promises[k].st # "pending")
                => join'.order = Append(join.order, k)]_vars

\* C11's case: three promises; the first settlement was a rejection, and
\* after it one sibling was fulfilled and another rejected.
C11_Witness ==
    /\ run.op = "acollect" /\ join.st = "rejected"
    /\ Len(join.order) = 3
    /\ join.order[1] \in RejectedIn(join)
    /\ \E k \in DOMAIN join.promises : join.promises[k].st = "fulfilled"
    /\ Cardinality(RejectedIn(join)) = 2
    /\ join.reason = join.order[1]

\* The machine of an iteration after n values were requested from it.
RECURSIVE AfterPulls(_, _, _)
AfterPulls(chain, m, n) ==
    IF n = 0 THEN m ELSE AfterPulls(chain, Pull(chain, Len(chain), m).m, n - 1)

\* The invocations, counted from 1, at which fn raises among the first n.
RaisingCalls(fn, n) == {k \in 1..n : CallConsumer(fn, k - 1) = "raise"}

\* C12: foreach(fn) invokes fn once per produced value, in order; when fn
\* raises at the k-th value, or the pipeline raises, foreach raises, fn was
\* invoked with the values up to there and no more, and the source was read
\* no further than producing that value required.
C12_ForeachStopsAtFirstFailure ==
    run.op = "foreach" =>
        LET start == NewMachine(run.chain, run.before, <<>>)
            alone == ArrayFrom(run.chain, start, <<>>)
            stop == RaisingCalls(run.fn, Len(alone.out))
        IN  IF stop = {}
            THEN /\ run.out = alone.out /\ run.raised = alone.raised
                 /\ run.m.si.pos = alone.m.si.pos
            ELSE LET k == CHOOSE k \in stop : \A o \in stop : k <= o IN
                 /\ run.raised
                 /\ run.out = SubSeq(alone.out, 1, k)
                 /\ run.m.si.pos = AfterPulls(run.chain, start, k).si.pos

\* C12's case: fn raised at the second of at least three values; foreach
\* raised, fn had been invoked with the first two, and the source keeps
\* elements that were never pulled.
C12_Witness ==
    /\ run.op = "foreach" /\ run.fn = "boomAt1" /\ run.raised
    /\ Len(run.out) = 2
    /\ Len(ArrayFrom(run.chain, NewMachine(run.chain, run.before, <<>>), <<>>).out) >= 3
    /\ run.m.si.pos < Len(run.m.si.items)
    /\ run.m.si.pos > run.before.pos

\* What collect() gives on iterable src for the stages an executor's Query
\* had been given when it made the executor.
AsMade(executor, src) ==
    LET chain == IteratorChain(Compile(executor.made)) IN
    ArrayFrom(chain, NewMachine(chain, src, <<>>), <<>>)

\* C13: no step changes an executor's rule; QueryExecutor.on(iterable) sets
\* the iterable of its executor, returns that executor and changes nothing
\* else; a terminal operation changes no field of any executor; and what
\* collect() returns is what the stages at the executor's construction give
\* on the bound iterable, whatever was appended to or packed on the Query
\* since.
C13_ExecutorKeepsItsTransformer ==
    [][/\ \A e \in DOMAIN exe : exe'[e].query = exe[e].query
       /\ (call' # call /\ call'.op = "executor.on") =>
            /\ call'.ret = call'.self
            /\ exe' = [exe EXCEPT ![call'.self].iterable = call'.arg]
            /\ queries' = queries /\ arrays' = arrays
       /\ run' # run =>
            /\ exe' = exe
            /\ run'.out = AsMade(exe[run'.e], run'.before).out
            /\ run'.raised = AsMade(exe[run'.e], run'.before).raised]_vars

\* C13's case: an executor made of A before A was given another stage was
\* collected twice on the array and returned the same values both times.
C13_Witness ==
    /\ prev.op = "collect" /\ run.op = "collect" /\ prev.e = run.e
    /\ exe[run.e].from = 1 /\ exe[run.e].made # stages[1]
    /\ run.before.kind = "array" /\ prev.before.kind = "array"
    /\ run.out # <<>> /\ run.out = prev.out
    /\ run.out = AsMade(exe[run.e], run.before).out

\* C14: QueryExecutor.extend() gives a new Query whose list is exactly the
\* executor's rule and changes no executor and no other Query; whatever is
\* appended to or packed on the Queries afterwards, every Query's output is
\* that of its own stages (for the new Query: those of the executor, then
\* its own), no executor changes, and collect() returns what the stages at
\* the executor's construction give; QueryExecutor.on changes the iterable
\* of its own executor only.
C14_ExecutorExtendIsolates ==
    [][/\ (call' # call /\ call'.op = "executor.extend") =>
            /\ Len(RulesOf(arrays', queries', call'.ret)) = 1
            /\ RulesOf(arrays', queries', call'.ret)[1] = exe[call'.self].query
            /\ exe' = exe
            /\ \A q \in DOMAIN queries : RulesOf(arrays', queries', q) = Rules(q)
       /\ (arrays' # arrays \/ queries' # queries) =>
            \A q \in DOMAIN queries' :
                SameOutputs(RulesOf(arrays', queries', q), stages'[q])
       /\ (call' # call /\ call'.op \in PushOps \cup {"pack"}) => exe' = exe
       /\ (call' # call /\ call'.op = "executor.on") =>
            exe' = [exe EXCEPT ![call'.self].iterable = call'.arg]
       /\ run' # run =>
            /\ run'.out = AsMade(exe[run'.e], run'.before).out
            /\ run'.raised = AsMade(exe[run'.e], run'.before).raised]_vars

\* C14's case: B = e.extend() was given a stage and an executor of its own,
\* bound to another iterable than e; e was collected and A's output is that
\* of A's stages.
C14_Witness ==
    /\ Len(queries) = 2 /\ Len(exe) = 2
    /\ exe[1].from = 1 /\ exe[2].from = 2
    /\ Len(stages[2]) > Len(exe[1].made)
    /\ exe[1].iterable # exe[2].iterable
    /\ run.op = "collect" /\ run.e = 1 /\ run.out # <<>>
    /\ run.out = AsMade(exe[1], run.before).out
    /\ Len(Rules(2)) = 2 /\ Rules(2)[1] = exe[1].query
    /\ OutputsOf(Rules(1)) = OutputsOf(stages[1])

\* The calls that make or rebind an executor, or extend it.
BindingOps == {"on", "build", "executor.on", "executor.extend"}

\* C17: build(), Query.on(x), QueryExecutor.on(x) and extend() can be
\* called whatever the iterable is (none, or a value that is not iterable),
\* and they read nothing and raise nothing; a terminal operation on such an
\* iterable raises before it produced a value or obtained an element; on an
\* iterable that is one, also right after such a failure of the same
\* executor, collect() returns the normal output.
C17_UnsetSourceFailsAtFirstPull ==
    [][/\ exe = <<>> => (ENABLED KeepBuild(1) /\ \A s \in DOMAIN srcs : ENABLED KeepOn(1, s))
       /\ \A e \in DOMAIN exe :
            /\ \A s \in 0..Len(srcs) : ENABLED ExecutorOn(e, s)
            /\ Len(queries) = 1 => ENABLED ExecutorExtend(e)
       /\ (call' # call /\ call'.op \in BindingOps) =>
            srcs' = srcs /\ run' = run /\ prev' = prev
       /\ (run' # run /\ run'.before.kind \notin SourceKinds) =>
            /\ run'.raised /\ run'.out = <<>>
            /\ \A i \in DOMAIN run'.m.pulled : run'.m.pulled[i] = 0
       /\ (run' # run /\ run'.before.kind \in SourceKinds) =>
            /\ run'.out = AsMade(exe[run'.e], run'.before).out
            /\ run'.raised = AsMade(exe[run'.e], run'.before).raised]_vars

\* C17's case: collect() on an executor without iterable raised; after
\* on(array) the same executor, of at least one stage, returned values.
C17_Witness ==
    /\ prev.op = "collect" /\ prev.raised /\ prev.before = Unset /\ prev.out = <<>>
    /\ run.op = "collect" /\ run.e = prev.e /\ run.before.kind = "array"
    /\ ~run.raised /\ run.out # <<>>
    /\ exe[run.e].made # <<>>
    /\ call.op = "executor.on" /\ call.arg = run.src

\* The members of the first k groups, in order.
RECURSIVE MembersOf(_, _)
MembersOf(groups, k) ==
    IF k = 0 THEN <<>> ELSE MembersOf(groups, k - 1) \o groups[k].items

\* C15: on a sequence of groups flat(n), n >= 0, gives the members of the
\* first min(n, number of groups) groups, in order, and nothing else; with
\* n omitted, flat() gives the members of all groups.
C15_FlatYieldsFirstGroupsOnly ==
    (/\ run.op = "collect" /\ Len(run.chain) = 2 /\ run.chain[1].kind = "flat"
     /\ \A k \in DOMAIN Remaining(run.before) : IsIterable(Remaining(run.before)[k]))
    => LET groups == Remaining(run.before)
           n == run.chain[1].n
       IN  /\ ~run.raised
           /\ run.out = MembersOf(groups, IF n < 0 THEN Len(groups) ELSE Min(n, Len(groups)))

\* C15's case: flat(1) over groups of which the second has members gave the
\* members of the first group only.
C15_Witness ==
    /\ run.op = "collect" /\ Len(run.chain) = 2 /\ run.chain[1].kind = "flat"
    /\ run.chain[1].n = 1
    /\ run.before.pos = 0 /\ Len(run.before.items) >= 2
    /\ \A k \in DOMAIN run.before.items : IsIterable(run.before.items[k])
    /\ run.before.items[2].items # <<>>
    /\ run.out # <<>> /\ run.out = run.before.items[1].items

\* The elements of items, from the k-th on, that fn accepts when it is given
\* each with its position in items, counted from zero.
RECURSIVE Accepted(_, _, _)
Accepted(fn, items, k) ==
    IF k > Len(items) THEN <<>>
    ELSE (IF CallPred(fn, items[k], k - 1) = "true" THEN <<items[k]>> ELSE <<>>)
             \o Accepted(fn, items, k + 1)

\* What the where stages 1..i of a chain accept, each counting its own input.
RECURSIVE AcceptedBy(_, _, _)
AcceptedBy(chain, i, items) ==
    IF i = 0 THEN items
    ELSE Accepted(chain[i].fn, AcceptedBy(chain, i - 1, items), 1)

\* C16: where(predicate) gives, in order and unchanged, the elements of its
\* input the predicate accepts, the predicate being given with the k-th
\* element of the stage's input the index k (counted from zero, rejected
\* elements included).
C16_WhereIndexCountsInput ==
    (/\ run.op = "collect"
     /\ \A i \in 1..(Len(run.chain) - 1) :
           run.chain[i].kind = "where" /\ run.chain[i].fn \in {"gt1", "evenIdx"}
     /\ Len(run.chain) >= 2)
    => /\ ~run.raised
       /\ run.out = AcceptedBy(run.chain, Len(run.chain) - 1, Remaining(run.before))

\* C16's case: where((v, i) => i % 2 === 0) over three elements gave the
\* first and the third.
C16_Witness ==
    /\ run.op = "collect" /\ Len(run.chain) = 2
    /\ run.chain[1].kind = "where" /\ run.chain[1].fn = "evenIdx"
    /\ run.before.pos = 0 /\ Len(run.before.items) = 3
    /\ run.out = <<run.before.items[1], run.before.items[3]>>

\* C19: when acollect(fn) returns, fn has been invoked once with every value
\* the pipeline produces, in order, with the indices 0, 1, 2, ...; the
\* promise of every invocation is in the list given to Promise.all and none
\* of them has been waited for: all are pending and none has settled.
C19_AcollectLaunchesAllBeforeWaiting ==
    [][(run' # run /\ run'.op = "acollect" /\ ~run'.raised) =>
          LET all == ArrayFrom(run'.chain, NewMachine(run'.chain, run'.before, <<>>), <<>>)
          IN  /\ run'.out = all.out
              /\ Len(join'.promises) = Len(all.out)
              /\ \A k \in DOMAIN join'.promises :
                    join'.promises[k] = CallAsync(run'.fn, all.out[k], k - 1)
              /\ join'.order = <<>>
              /\ join'.remaining = Len(all.out)]_vars

\* C19's case: acollect has returned with MaxLen promises in flight, none
\* settled.
C19_Witness ==
    /\ run.op = "acollect" /\ run.fn = "pair" /\ join.st = "pending"
    /\ Len(join.promises) = MaxLen /\ Len(run.out) = MaxLen
    /\ join.order = <<>>
    /\ \A k \in DOMAIN join.promises : join.promises[k].st = "pending"

\* What iteration k's executor gives when it is iterated alone.
Alone(k) == ArrayFrom(its[k].chain, NewMachine(its[k].chain, Bound(its[k].e), <<>>), <<>>)

\* C20: iterations that are alive together, of one executor or of executors
\* made of one Query, over an array, advanced in any interleaving: each has
\* delivered a prefix of what its executor gives alone, its generator
\* objects (their counters too) are those of an iteration advanced alone by
\* as many requests, and it ends where the iteration alone ends.
C20_IterationsOwnTheirStageState ==
    \A k \in DOMAIN its :
        LET alone == Alone(k)
            it == its[k]
            fresh == NewMachine(it.chain, Bound(it.e), <<>>)
        IN  /\ Len(it.out) <= Len(alone.out)
            /\ it.out = SubSeq(alone.out, 1, Len(it.out))
            /\ it.st = "live" => it.m = AfterPulls(it.chain, fresh, Len(it.out))
            /\ it.st # "live" =>
                   /\ it.out = alone.out /\ it.m = alone.m
                   /\ (it.st = "raised") = alone.raised

\* C20's case: two iterations of the same executor, both under way (each has
\* delivered a value and none has ended), over stages whose counters have
\* advanced, at different positions of the array.
C20_Witness ==
    /\ Len(its) = 2 /\ its[1].e = its[2].e
    /\ its[1].st = "live" /\ its[2].st = "live"
    /\ Len(its[1].out) = 2 /\ Len(its[2].out) = 1
    /\ its[1].m.fr[1].c > its[2].m.fr[1].c /\ its[2].m.fr[1].c > 0
    /\ its[1].m.si.pos > its[2].m.si.pos

\* What the chain gives on the first n elements of items.
OutputOfPrefix(chain, items, n) ==
    ArrayFrom(chain, NewMachine(chain, Source("array", SubSeq(items, 1, n)), <<>>), <<>>).out

\* C18: making an iterator requests nothing; a request to an iteration
\* delivers one value at most and advances no other iteration; and when it
\* takes the source from position a to b > a, every value the pipeline
\* gives for the elements before the last one pulled (the first b - 1) had
\* been delivered before the request.
C18_PullsOnlyWhenEarlierOutputsDelivered ==
    [][/\ \A k \in DOMAIN its' \ DOMAIN its :
             /\ its'[k].out = <<>> /\ its'[k].m.si.pos = 0
             /\ \A i \in DOMAIN its'[k].chain :
                    its'[k].m.pulled[i] = 0 /\ its'[k].m.fr[i].st = "start"
       /\ \A k \in DOMAIN its :
             its'[k] # its[k] =>
                LET a == its[k].m.si.pos
                    b == its'[k].m.si.pos
                    given == OutputOfPrefix(its[k].chain, its[k].m.si.items, b - 1)
                IN  /\ \A j \in DOMAIN its \ {k} : its'[j] = its[j]
                    /\ Len(its'[k].out) <= Len(its[k].out) + 1
                    /\ its[k].out = SubSeq(its'[k].out, 1, Len(its[k].out))
                    /\ b > a =>
                           /\ Len(given) <= Len(its[k].out)
                           /\ given = SubSeq(its[k].out, 1, Len(given))
      ]_vars

\* C18's case: an iteration over flat() has delivered both members of the
\* second group and has pulled the source twice, with elements left.
C18_Witness ==
    /\ Len(its) >= 1 /\ its[1].st = "live"
    /\ its[1].chain[1].kind = "flat"
    /\ Len(its[1].out) = 3
    /\ its[1].m.si.pos = 2
    /\ Len(its[1].m.si.items) > 2

====
